---- MODULE Spec2Model ----
(***************************************************************************)
(* OpenPurview: the graph store behind DBManager (src/database/            *)
(* db_manager.py) and the scan / search handlers of the Streamlit page     *)
(* (src/ui/app.py).                                                        *)
(*                                                                         *)
(* The Kuzu database is modelled as a set of node rows and a bag of        *)
(* relationship rows.  A node row is [label, id, props]; props maps every  *)
(* declared non-key column of the node table to a value, NULL when the     *)
(* column was never SET.  Python dicts are TLA+ functions whose DOMAIN is  *)
(* the set of keys present.                                                *)
(***************************************************************************)
EXTENDS Integers, Sequences, FiniteSets, Bags, TLC

VARIABLES
    nodes,      \* the node tables: a set of rows [label, id, props]
    edges,      \* the relationship tables: a bag of rows [rel, src, dst]
    last,       \* the call that was made last: its arguments, what it found, what it returned
    missed,     \* history: the relationships a link_* / upsert_pbi_* call could not create
    pc,         \* the page script's position: the scan block it is at, or Dashboard
    buttons,    \* the scan buttons that are set in this run of the page script
    status,     \* per scan type, its latest scan: Idle, Running, Succeeded or Failed
    escaped,    \* the exception that left a scan block uncaught, or None
    sent,       \* the statements the last catalog search sent to the database
    prevSent,   \* the statements the search before it sent
    tables,     \* the node and relationship tables that exist in the store
    warnings,   \* the tables _init_schema logged a warning about
    writers,    \* per session thread: where it is in a DBManager method
    poll        \* PowerBICollector._wait_for_scan: its position and what it saw

db == <<nodes, edges, last, missed>>

app == <<pc, buttons, status, escaped, sent, prevSent>>

infra == <<tables, warnings, writers, poll>>

vars == <<nodes, edges, last, missed, pc, buttons, status, escaped, sent, prevSent,
          tables, warnings, writers, poll>>

\* Python None / Kuzu NULL.
NULL == "NULL"

\* The value a Python function without a return statement hands back.
None == "None"

-----------------------------------------------------------------------------
(* Schema: DBManager._init_schema *)

\* Non-key columns of every node table.
NodeCols(label) ==
    CASE label = "User"                 -> {"displayName", "mail", "upn"}
      [] label = "M365Group"            -> {"displayName", "mail"}
      [] label = "Subscription"         -> {"name", "state"}
      [] label = "Resource"             -> {"name", "type", "location", "resourceGroup"}
      [] label = "PBIWorkspace"         -> {"name", "state", "capacityId"}
      [] label = "PBIReport"            -> {"name", "datasetId"}
      [] label = "PBIDataset"           -> {"name", "configuredBy"}
      [] label = "SynapsePipeline"      -> {"name", "workspace"}
      [] label = "SynapseNotebook"      -> {"name", "workspace"}
      [] label = "SynapseDataset"       -> {"name", "type", "workspace"}
      [] label = "SynapseLinkedService" -> {"name", "type", "workspace"}
      [] label = "ADFPipeline"          -> {"name", "factory"}
      [] label = "ADFDataset"           -> {"name", "type", "factory"}
      [] label = "ADFLinkedService"     -> {"name", "type", "factory"}

NodeLabels ==
    {"User", "M365Group", "Subscription", "Resource",
     "PBIWorkspace", "PBIReport", "PBIDataset",
     "SynapsePipeline", "SynapseNotebook", "SynapseDataset", "SynapseLinkedService",
     "ADFPipeline", "ADFDataset", "ADFLinkedService"}

\* FROM / TO node table of every relationship table.
RelEnds(rel) ==
    CASE rel = "MemberOf"                     -> <<"User", "M365Group">>
      [] rel = "Contains"                     -> <<"Subscription", "Resource">>
      [] rel = "PBIContains"                  -> <<"PBIWorkspace", "PBIReport">>
      [] rel = "PBIContainsDataset"           -> <<"PBIWorkspace", "PBIDataset">>
      [] rel = "PBIFeeds"                     -> <<"PBIDataset", "PBIReport">>
      [] rel = "SynapseContains"              -> <<"Resource", "SynapsePipeline">>
      [] rel = "SynapseContainsNotebook"      -> <<"Resource", "SynapseNotebook">>
      [] rel = "SynapseContainsDataset"       -> <<"Resource", "SynapseDataset">>
      [] rel = "SynapseContainsLinkedService" -> <<"Resource", "SynapseLinkedService">>
      [] rel = "ADFContainsPipeline"          -> <<"Resource", "ADFPipeline">>
      [] rel = "ADFContainsDataset"           -> <<"Resource", "ADFDataset">>
      [] rel = "ADFContainsLinkedService"     -> <<"Resource", "ADFLinkedService">>

RelTypes ==
    {"MemberOf", "Contains", "PBIContains", "PBIContainsDataset", "PBIFeeds",
     "SynapseContains", "SynapseContainsNotebook", "SynapseContainsDataset",
     "SynapseContainsLinkedService",
     "ADFContainsPipeline", "ADFContainsDataset", "ADFContainsLinkedService"}

-----------------------------------------------------------------------------
(* Python dict access *)

\* d.get(k): the value, or None when the key is absent.
Get(d, k) == IF k \in DOMAIN d THEN d[k] ELSE NULL

\* d.get(k, default)
GetD(d, k, default) == IF k \in DOMAIN d THEN d[k] ELSE default

-----------------------------------------------------------------------------
(* Cypher statements as DBManager issues them through conn.execute *)

\* MATCH (n:label {id: $id})
Match(G, label, id) == {n \in G : n.label = label /\ n.id = id}

\* A freshly created row: every non-key column NULL.
NewNode(label, id) ==
    [label |-> label, id |-> id, props |-> [c \in NodeCols(label) |-> NULL]]

\* SET n.c = assign[c] for the columns the statement lists.
SetProps(n, assign) ==
    [n EXCEPT !.props = [c \in DOMAIN n.props |->
                            IF c \in DOMAIN assign THEN assign[c] ELSE n.props[c]]]

\* A broken MERGE that behaves as CREATE: a new row whether or not one matches.
MergeNodeAsCreate(G, label, id, assign) ==
    G \cup {SetProps(NewNode(label, id), assign)}

\* A broken MERGE that applies SET only to the row it creates (ON CREATE SET).
\* A MERGE that clears the node table before it writes its row.
MergeNodeTruncating(G, label, id, assign) ==
    {n \in G : n.label # label} \cup {SetProps(NewNode(label, id), assign)}

\* A MERGE that matches on the id alone, whatever the label.
MergeNodeById(G, label, id, assign) ==
    {n \in G : n.id # id} \cup {SetProps(NewNode(label, id), assign)}

MergeNodeOnCreateOnly(G, label, id, assign) ==
    IF Match(G, label, id) = {}
    THEN G \cup {SetProps(NewNode(label, id), assign)}
    ELSE G

\* MERGE (n:label {id: $id}) SET n.c = ... : find the row or create it, then
\* apply the SET clause to it.
MergeNode(G, label, id, assign) ==
    LET m == Match(G, label, id)
    IN  IF m = {}
        THEN G \cup {SetProps(NewNode(label, id), assign)}
        ELSE (G \ m) \cup {SetProps(n, assign) : n \in m}

Rel(rel, src, dst) == [rel |-> rel, src |-> src, dst |-> dst]

\* A broken relationship MERGE that behaves as CREATE.
MergeRelAsCreate(G, E, rel, src, dst) ==
    IF Match(G, RelEnds(rel)[1], src) # {} /\ Match(G, RelEnds(rel)[2], dst) # {}
    THEN E (+) SetToBag({Rel(rel, src, dst)})
    ELSE E

\* A broken relationship MERGE that does not MATCH its endpoints first.
MergeRelNoMatch(G, E, rel, src, dst) ==
    IF BagIn(Rel(rel, src, dst), E)
    THEN E
    ELSE E (+) SetToBag({Rel(rel, src, dst)})

\* MATCH (a:From {id: $src}), (b:To {id: $dst}) MERGE (a)-[:rel]->(b):
\* no row matched means the MERGE is not run; otherwise the relationship is
\* created unless it is already there.
MergeRel(G, E, rel, src, dst) ==
    IF Match(G, RelEnds(rel)[1], src) # {} /\ Match(G, RelEnds(rel)[2], dst) # {}
    THEN IF BagIn(Rel(rel, src, dst), E)
         THEN E
         ELSE E (+) SetToBag({Rel(rel, src, dst)})
    ELSE E

-----------------------------------------------------------------------------
(* DBManager write methods, as transformers of the node set / edge bag *)

user_assign(user_data) ==
    [displayName |-> Get(user_data, "displayName"),
     mail        |-> GetD(user_data, "mail", ""),
     upn         |-> Get(user_data, "userPrincipalName")]

upsert_user(G, user_data) ==
    MergeNode(G, "User", Get(user_data, "id"), user_assign(user_data))

resource_assign(res_data) ==
    [name          |-> Get(res_data, "name"),
     type          |-> Get(res_data, "type"),
     location      |-> Get(res_data, "location"),
     resourceGroup |-> Get(res_data, "resourceGroup")]

upsert_resource(G, res_data) ==
    MergeNode(G, "Resource", Get(res_data, "id"), resource_assign(res_data))

subscription_assign(sub_data) ==
    [name |-> Get(sub_data, "displayName")]

upsert_subscription(G, sub_data) ==
    MergeNode(G, "Subscription", Get(sub_data, "subscriptionId"),
              subscription_assign(sub_data))

link_subscription_resource(G, E, sub_id, resource_id) ==
    MergeRel(G, E, "Contains", sub_id, resource_id)

pbi_workspace_assign(ws_data) ==
    [name       |-> Get(ws_data, "name"),
     state      |-> Get(ws_data, "state"),
     capacityId |-> GetD(ws_data, "capacityId", "")]

upsert_pbi_workspace(G, ws_data) ==
    MergeNode(G, "PBIWorkspace", Get(ws_data, "id"), pbi_workspace_assign(ws_data))

pbi_report_assign(report_data) ==
    [name      |-> Get(report_data, "name"),
     datasetId |-> GetD(report_data, "datasetId", "")]

\* Two statements: the report's MERGE, then the workspace -> report link.
upsert_pbi_report(G, E, report_data, workspace_id) ==
    LET G1 == MergeNode(G, "PBIReport", Get(report_data, "id"),
                        pbi_report_assign(report_data))
    IN  [G |-> G1,
         E |-> MergeRel(G1, E, "PBIContains", workspace_id, Get(report_data, "id"))]

pbi_dataset_assign(dataset_data) ==
    [name         |-> Get(dataset_data, "name"),
     configuredBy |-> GetD(dataset_data, "configuredBy", "")]

upsert_pbi_dataset(G, E, dataset_data, workspace_id) ==
    LET G1 == MergeNode(G, "PBIDataset", Get(dataset_data, "id"),
                        pbi_dataset_assign(dataset_data))
    IN  [G |-> G1,
         E |-> MergeRel(G1, E, "PBIContainsDataset", workspace_id,
                        Get(dataset_data, "id"))]

\* Python truthiness of an id: None and the empty string are falsy.
Falsy(v) == v \in {NULL, ""}

link_dataset_to_report(G, E, dataset_id, report_id) ==
    IF Falsy(dataset_id) \/ Falsy(report_id)
    THEN E
    ELSE MergeRel(G, E, "PBIFeeds", dataset_id, report_id)

\* The result of a method that may raise: the graph it leaves and what it
\* returned, None or the name of the exception that left it.
Result(G, E, ret) == [G |-> G, E |-> E, ret |-> ret]

\* The dict keys one loop body reads with item[key]: "id" and the keys of
\* the SET parameters; colkeys maps each column to the key it is read from.
NeededKeys(colkeys) == {"id"} \cup {colkeys[c] : c \in DOMAIN colkeys}

\* One "for item in artifacts.get(kind, [])" loop: per item a node MERGE and
\* the anchor -> item link.  item[key] on a dict without the key raises
\* KeyError while the parameters are built, before the item's first
\* statement; nothing catches it, so it ends the loop and the method.
RECURSIVE artifact_loop(_, _, _, _, _, _)
artifact_loop(st, rid, items, label, rel, colkeys) ==
    IF st.ret # None \/ items = <<>>
    THEN st
    ELSE LET item == Head(items)
         IN  IF ~(NeededKeys(colkeys) \subseteq DOMAIN item)
             THEN Result(st.G, st.E, "KeyError")
             ELSE LET G1 == MergeNode(st.G, label, item["id"],
                                      [c \in DOMAIN colkeys |-> item[colkeys[c]]])
                      E1 == MergeRel(G1, st.E, rel, rid, item["id"])
                  IN  artifact_loop(Result(G1, E1, None), rid, Tail(items),
                                    label, rel, colkeys)

upsert_synapse_artifacts(G, E, workspace_resource_id, artifacts) ==
    LET s1 == artifact_loop(Result(G, E, None), workspace_resource_id,
                            GetD(artifacts, "pipelines", <<>>),
                            "SynapsePipeline", "SynapseContains",
                            [name |-> "name", workspace |-> "workspace"])
        s2 == artifact_loop(s1, workspace_resource_id,
                            GetD(artifacts, "notebooks", <<>>),
                            "SynapseNotebook", "SynapseContainsNotebook",
                            [name |-> "name", workspace |-> "workspace"])
        s3 == artifact_loop(s2, workspace_resource_id,
                            GetD(artifacts, "datasets", <<>>),
                            "SynapseDataset", "SynapseContainsDataset",
                            [name |-> "name", type |-> "type", workspace |-> "workspace"])
    IN  artifact_loop(s3, workspace_resource_id,
                      GetD(artifacts, "linked_services", <<>>),
                      "SynapseLinkedService", "SynapseContainsLinkedService",
                      [name |-> "name", type |-> "type", workspace |-> "workspace"])

upsert_adf_artifacts(G, E, factory_resource_id, artifacts) ==
    LET s1 == artifact_loop(Result(G, E, None), factory_resource_id,
                            GetD(artifacts, "pipelines", <<>>),
                            "ADFPipeline", "ADFContainsPipeline",
                            [name |-> "name", factory |-> "factory_name"])
        s2 == artifact_loop(s1, factory_resource_id,
                            GetD(artifacts, "datasets", <<>>),
                            "ADFDataset", "ADFContainsDataset",
                            [name |-> "name", type |-> "type", factory |-> "factory_name"])
    IN  artifact_loop(s2, factory_resource_id,
                      GetD(artifacts, "linked_services", <<>>),
                      "ADFLinkedService", "ADFContainsLinkedService",
                      [name |-> "name", type |-> "type", factory |-> "factory_name"])

-----------------------------------------------------------------------------
(* Inputs of the DBManager API *)

SubIds == {"a"}
ResIds == {"a", "b"}
UserIds == {"a"}

\* Records as M365Collector.get_all_users builds them, and one that carries
\* only the id (every optional key absent).
UserRecords ==
    UNION {{[id |-> i, displayName |-> "Ann", mail |-> "ann@x", userPrincipalName |-> "ann"],
            [id |-> i, displayName |-> "Bob", mail |-> "bob@x", userPrincipalName |-> "bob"],
            [id |-> i]} : i \in UserIds}

\* Dicts as the inventory scan builds them for upsert_subscription.
SubRecords ==
    {[subscriptionId |-> i, displayName |-> n] : i \in SubIds, n \in {"Prod", "Dev"}}

\* Rows of Azure Resource Graph's Resources table (the projected columns that
\* the graph layer reads).
ResRecords ==
    UNION {{[id |-> i, name |-> "vm1", type |-> "microsoft.compute/virtualmachines",
             location |-> "eastus", resourceGroup |-> "rg1", subscriptionId |-> "a"],
            [id |-> i, name |-> "syn1", type |-> "microsoft.synapse/workspaces",
             location |-> "westus", resourceGroup |-> "rg2", subscriptionId |-> "b"]}
           : i \in ResIds}

------------------------------------------------------------------------

WsIds == {"a"}
ReportIds == {"a"}
DatasetIds == {"a"}

\* Workspaces of a Scanner API result; capacityId is absent for a workspace
\* on shared capacity.
WsRecords ==
    UNION {{[id |-> i, name |-> "Sales", state |-> "Active", capacityId |-> "cap1"],
            [id |-> i, name |-> "Finance", state |-> "Deleted"]} : i \in WsIds}

\* Reports of a scanned workspace; datasetId is absent for a report without
\* a dataset.
ReportRecords ==
    UNION {{[id |-> i, name |-> "Revenue", datasetId |-> "a"],
            [id |-> i, name |-> "Paginated"]} : i \in ReportIds}

DatasetRecords ==
    UNION {{[id |-> i, name |-> "Orders", configuredBy |-> "ann@x"],
            [id |-> i, name |-> "Ledger"]} : i \in DatasetIds}

\* The longest artifact list of a batch.
MaxBatch == 3

\* All sequences over S of length at most n.
SeqsUpTo(S, n) == UNION {[1..k -> S] : k \in 0..n}

\* Items as SynapseCollector.scan_workspace_artifacts builds them, and one
\* that lacks its id.
SynPipelineItems ==
    {[id |-> "p1", name |-> "copy", workspace |-> "syn1"],
     [id |-> "p2", name |-> "load", workspace |-> "syn1"],
     [name |-> "broken", workspace |-> "syn1"]}

\* A scan result: the pipelines vary; one notebook, one dataset and no
\* linked service come with each.
SynapseArtifacts ==
    {[pipelines |-> ps,
      notebooks |-> <<[id |-> "n1", name |-> "explore", workspace |-> "syn1"]>>,
      datasets |-> <<[id |-> "d1", name |-> "sales", type |-> "Parquet",
                      workspace |-> "syn1"]>>,
      linked_services |-> <<>>]
        : ps \in SeqsUpTo(SynPipelineItems, MaxBatch)}

\* Items as ADFCollector.scan_adf builds them, and a dataset that lacks its id.
AdfArtifacts ==
    {[pipelines |-> ps, datasets |-> ds, linked_services |-> ls]
        : ps \in {<<>>, <<[id |-> "f1", name |-> "ingest", factory_name |-> "adf1"]>>},
          ds \in {<<>>,
                  <<[id |-> "g1", name |-> "raw", type |-> "AzureSqlTable",
                     factory_name |-> "adf1"]>>,
                  <<[name |-> "broken", type |-> "Unknown", factory_name |-> "adf1"],
                    [id |-> "g1", name |-> "raw", type |-> "AzureSqlTable",
                     factory_name |-> "adf1"]>>},
          ls \in {<<>>, <<[id |-> "h1", name |-> "sql", type |-> "AzureSqlDatabase",
                           factory_name |-> "adf1"]>>}}

-----------------------------------------------------------------------------
(* State after DBManager.__init__ on a new database directory *)

\* The scan blocks of the page script, in the order the script runs them.
\* The session threads that share the cached DBManager (st.cache_resource).
Writers == {"s1", "s2"}

Blocks == <<"azure", "m365", "pbi", "synapse", "adf", "sql">>

ScanTypes == {Blocks[i] : i \in 1..Len(Blocks)}

\* The script's position after its last scan block: the dashboard tabs.
Dashboard == Len(Blocks) + 1

Init ==
    /\ nodes = {}
    /\ edges = EmptyBag
    /\ last = [op |-> "init"]
    /\ missed = {}
    /\ pc = Dashboard
    /\ buttons = {}
    /\ status = [t \in ScanTypes |-> "Idle"]
    /\ escaped = None
    /\ sent = <<>>
    /\ prevSent = <<>>
    /\ tables = NodeLabels \cup RelTypes
    /\ warnings = {}
    /\ writers = [w \in Writers |-> [at |-> "idle"]]
    /\ poll = [at |-> "idle"]

-----------------------------------------------------------------------------
(* One action per DBManager call.  last.set is the set of columns the       *)
(* statement's SET clause lists and last.before the rows its MERGE matched  *)
(* before the call; last.found / last.had say whether a link call matched   *)
(* both endpoints / found the relationship already there.                   *)

UpsertCall(op, label, id, d, assign) ==
    [op |-> op, label |-> label, id |-> id, data |-> d,
     set |-> DOMAIN assign, before |-> Match(nodes, label, id), ret |-> None]

\* An upsert that hands its statement to a store that lets it through and
\* writes whatever tables exist.
execute_upsert_Unchecked(T, G, label, G1) == [G |-> G1, ret |-> None]

\* conn.execute of an upsert's statement on the store as it is: a node
\* table that does not exist makes Kuzu's binder raise RuntimeError, which
\* leaves the method, and nothing is written.
execute_upsert(T, G, label, G1) ==
    IF label \in T
    THEN [G |-> G1, ret |-> None]
    ELSE [G |-> G, ret |-> "RuntimeError"]


LinkCall(op, rel, src, dst) ==
    [op |-> op, rel |-> rel, src |-> src, dst |-> dst,
     found |-> (Match(nodes, RelEnds(rel)[1], src) # {}
                /\ Match(nodes, RelEnds(rel)[2], dst) # {}),
     had |-> BagIn(Rel(rel, src, dst), edges),
     ret |-> None]

Missed(call) == IF call.found THEN missed ELSE missed \cup {Rel(call.rel, call.src, call.dst)}

UpsertUser ==
    \E d \in UserRecords :
        /\ nodes' = execute_upsert(tables, nodes, "User", upsert_user(nodes, d)).G
        /\ last' = [UpsertCall("upsert_user", "User", Get(d, "id"), d, user_assign(d))
                    EXCEPT !.ret = execute_upsert(tables, nodes, "User", nodes).ret]
        /\ UNCHANGED <<edges, missed>>
        /\ UNCHANGED <<app, infra>>

UpsertResource ==
    \E d \in ResRecords :
        /\ nodes' = execute_upsert(tables, nodes, "Resource", upsert_resource(nodes, d)).G
        /\ last' = [UpsertCall("upsert_resource", "Resource", Get(d, "id"), d,
                               resource_assign(d))
                    EXCEPT !.ret = execute_upsert(tables, nodes, "Resource", nodes).ret]
        /\ UNCHANGED <<edges, missed>>
        /\ UNCHANGED <<app, infra>>

UpsertSubscription ==
    \E d \in SubRecords :
        /\ nodes' = upsert_subscription(nodes, d)
        /\ last' = UpsertCall("upsert_subscription", "Subscription",
                              Get(d, "subscriptionId"), d, subscription_assign(d))
        /\ UNCHANGED <<edges, missed>>
        /\ UNCHANGED <<app, infra>>

LinkSubscriptionResource ==
    \E s \in SubIds, r \in ResIds :
        /\ edges' = link_subscription_resource(nodes, edges, s, r)
        /\ last' = LinkCall("link_subscription_resource", "Contains", s, r)
        /\ missed' = Missed(last')
        /\ UNCHANGED nodes
        /\ UNCHANGED <<app, infra>>

\* The call record of a method that upserts a node and then links it.
UpsertLinkCall(op, label, id, d, assign, rel, src, dst, G1) ==
    [op |-> op, label |-> label, id |-> id, data |-> d,
     set |-> DOMAIN assign, before |-> Match(nodes, label, id),
     rel |-> rel, src |-> src, dst |-> dst,
     found |-> (Match(G1, RelEnds(rel)[1], src) # {}
                /\ Match(G1, RelEnds(rel)[2], dst) # {}),
     had |-> BagIn(Rel(rel, src, dst), edges),
     ret |-> None]

UpsertPbiWorkspace ==
    \E d \in WsRecords :
        /\ nodes' = upsert_pbi_workspace(nodes, d)
        /\ last' = UpsertCall("upsert_pbi_workspace", "PBIWorkspace", Get(d, "id"), d,
                              pbi_workspace_assign(d))
        /\ UNCHANGED <<edges, missed>>
        /\ UNCHANGED <<app, infra>>

UpsertPbiReport ==
    \E d \in ReportRecords, w \in WsIds :
        LET r == upsert_pbi_report(nodes, edges, d, w)
        IN  /\ nodes' = r.G
            /\ edges' = r.E
            /\ last' = UpsertLinkCall("upsert_pbi_report", "PBIReport", Get(d, "id"), d,
                                      pbi_report_assign(d),
                                      "PBIContains", w, Get(d, "id"), r.G)
            /\ missed' = Missed(last')
            /\ UNCHANGED <<app, infra>>

UpsertPbiDataset ==
    \E d \in DatasetRecords, w \in WsIds :
        LET r == upsert_pbi_dataset(nodes, edges, d, w)
        IN  /\ nodes' = r.G
            /\ edges' = r.E
            /\ last' = UpsertLinkCall("upsert_pbi_dataset", "PBIDataset", Get(d, "id"), d,
                                      pbi_dataset_assign(d),
                                      "PBIContainsDataset", w, Get(d, "id"), r.G)
            /\ missed' = Missed(last')
            /\ UNCHANGED <<app, infra>>

LinkDatasetToReport ==
    \E ds \in DatasetIds \cup {""}, r \in ReportIds :
        /\ edges' = link_dataset_to_report(nodes, edges, ds, r)
        /\ last' = LinkCall("link_dataset_to_report", "PBIFeeds", ds, r)
        /\ missed' = Missed(last')
        /\ UNCHANGED nodes
        /\ UNCHANGED <<app, infra>>

NextPBI ==
    \/ UpsertPbiWorkspace
    \/ UpsertPbiReport
    \/ UpsertPbiDataset
    \/ LinkDatasetToReport

SpecPBI == Init /\ [][NextPBI]_vars

\* The ingest loop of the BI scan handler, over the workspaces of a scan
\* result.  For each workspace: the workspace, then each report (with its
\* dataset link when the report names a dataset), then the datasets.
RECURSIVE ingest_reports(_, _, _, _)
ingest_reports(G, E, reports, ws_id) ==
    IF reports = <<>>
    THEN [G |-> G, E |-> E]
    ELSE LET report == Head(reports)
             r1 == upsert_pbi_report(G, E, report, ws_id)
             E2 == IF Falsy(Get(report, "datasetId"))
                   THEN r1.E
                   ELSE link_dataset_to_report(r1.G, r1.E, Get(report, "datasetId"),
                                               Get(report, "id"))
         IN  ingest_reports(r1.G, E2, Tail(reports), ws_id)

RECURSIVE ingest_datasets(_, _, _, _)
ingest_datasets(G, E, datasets, ws_id) ==
    IF datasets = <<>>
    THEN [G |-> G, E |-> E]
    ELSE LET r1 == upsert_pbi_dataset(G, E, Head(datasets), ws_id)
         IN  ingest_datasets(r1.G, r1.E, Tail(datasets), ws_id)

RECURSIVE ingest_pbi(_, _, _)
ingest_pbi(G, E, scan_results) ==
    IF scan_results = <<>>
    THEN [G |-> G, E |-> E]
    ELSE LET ws == Head(scan_results)
             G1 == upsert_pbi_workspace(G, ws)
             r2 == ingest_reports(G1, E, GetD(ws, "reports", <<>>), ws["id"])
             r3 == ingest_datasets(r2.G, r2.E, GetD(ws, "datasets", <<>>), ws["id"])
         IN  ingest_pbi(r3.G, r3.E, Tail(scan_results))

\* The most reports, and the most datasets, of a scanned workspace.
MaxPerWorkspace == 2

\* Scan results of a tenant with one workspace.
ScanResults ==
    {<<w @@ [reports |-> rs, datasets |-> ds]>> :
        w \in WsRecords,
        rs \in SeqsUpTo(ReportRecords, MaxPerWorkspace),
        ds \in SeqsUpTo(DatasetRecords, MaxPerWorkspace)}

IngestPbi ==
    \E scan_results \in ScanResults :
        LET r == ingest_pbi(nodes, edges, scan_results)
        IN  /\ nodes' = r.G
            /\ edges' = r.E
            /\ last' = [op |-> "ingest_pbi", scan_results |-> scan_results, ret |-> None]
            /\ UNCHANGED missed
            /\ UNCHANGED <<app, infra>>

NextIngest ==
    \/ IngestPbi

SpecIngest == Init /\ [][NextIngest]_vars

BatchCall(op, rid, artifacts, ret) ==
    [op |-> op, rid |-> rid, artifacts |-> artifacts,
     found |-> (Match(nodes, "Resource", rid) # {}), ret |-> ret]

UpsertSynapseArtifacts ==
    \E rid \in ResIds, artifacts \in SynapseArtifacts :
        LET r == upsert_synapse_artifacts(nodes, edges, rid, artifacts)
        IN  /\ nodes' = r.G
            /\ edges' = r.E
            /\ last' = BatchCall("upsert_synapse_artifacts", rid, artifacts, r.ret)
            /\ UNCHANGED missed
            /\ UNCHANGED <<app, infra>>

UpsertAdfArtifacts ==
    \E rid \in ResIds, artifacts \in AdfArtifacts :
        LET r == upsert_adf_artifacts(nodes, edges, rid, artifacts)
        IN  /\ nodes' = r.G
            /\ edges' = r.E
            /\ last' = BatchCall("upsert_adf_artifacts", rid, artifacts, r.ret)
            /\ UNCHANGED missed
            /\ UNCHANGED <<app, infra>>

\* The inventory row of the anchor: Synapse workspace "a".  No row is ever
\* ingested for resource id "b", the anchor that is missing.
AnchorRecords ==
    {d \in ResRecords : d.type = "microsoft.synapse/workspaces" /\ d.id = "a"}

UpsertAnchor ==
    \E d \in AnchorRecords :
        /\ nodes' = upsert_resource(nodes, d)
        /\ last' = UpsertCall("upsert_resource", "Resource", Get(d, "id"), d,
                              resource_assign(d))
        /\ UNCHANGED <<edges, missed>>
        /\ UNCHANGED <<app, infra>>

NextBatch ==
    \/ UpsertAnchor
    \/ UpsertSynapseArtifacts

SpecBatch == Init /\ [][NextBatch]_vars

NextADF ==
    \/ UpsertAnchor
    \/ UpsertAdfArtifacts

SpecADF == Init /\ [][NextADF]_vars

-----------------------------------------------------------------------------
(* Collectors: what a scan block gets from the cloud APIs *)

\* The outcome of a collector call: it raised, or it returned data.
Raised == [raised |-> TRUE]
Returned(data) == [raised |-> FALSE, data |-> data]

\* Rows of Resource Graph's resourcecontainers query (get_subscriptions).
SubRowA == [subscriptionId |-> "a", name |-> "Prod", type |-> "microsoft.resources/subscriptions"]

\* Rows of Resource Graph's Resources query (get_all_resources): a Synapse
\* workspace in subscription "a" and a Data Factory in a subscription the
\* subscription query does not list.
ResRowA ==
    [id |-> "a", name |-> "syn1", type |-> "Microsoft.Synapse/workspaces",
     location |-> "westus", resourceGroup |-> "rg2", subscriptionId |-> "a"]

ResRowB ==
    [id |-> "b", name |-> "adf1", type |-> "Microsoft.DataFactory/factories",
     location |-> "eastus", resourceGroup |-> "rg1", subscriptionId |-> "b"]

SubscriptionOutcomes == {Raised, Returned(<<>>), Returned(<<SubRowA>>)}

ResourceOutcomes == {Raised, Returned(<<>>), Returned(<<ResRowA>>), Returned(<<ResRowA, ResRowB>>)}

UserOutcomes ==
    {Returned(<<>>),
     Returned(<<[id |-> "a", displayName |-> "Ann", mail |-> "ann@x",
                 userPrincipalName |-> "ann"]>>)}

\* What Synapse workspace ws_name holds, per artifact list, as the Synapse
\* artifacts client lists it.
SynapseUpstream(ws_name) ==
    [pipelines |-> <<[name |-> "copy"]>>,
     notebooks |-> <<[name |-> "explore"]>>,
     datasets |-> <<[name |-> "sales", type |-> "Parquet"]>>,
     linked_services |-> <<>>]

\* f"{workspace_name}/{kind}/{name}"
ArtifactId(ws_name, kind, name) ==
    CASE <<ws_name, kind, name>> = <<"syn1", "pipeline", "copy">>    -> "syn1/pipeline/copy"
      [] <<ws_name, kind, name>> = <<"syn1", "notebook", "explore">> -> "syn1/notebook/explore"
      [] <<ws_name, kind, name>> = <<"syn1", "dataset", "sales">>    -> "syn1/dataset/sales"
      [] OTHER                                                        -> "other"

\* The listing calls of scan_workspace_artifacts, in order; failAt names the
\* first one that raises ("client": creating the client raises; "none":
\* every call succeeds).
SynapseSteps == <<"client", "pipelines", "notebooks", "datasets", "linked_services">>

StepIndex(step) == CHOOSE i \in 1..Len(SynapseSteps) : SynapseSteps[i] = step

\* Whether the listing call `step` ran to its end before the first failure.
Listed(step, failAt) ==
    failAt = "none" \/ StepIndex(step) < StepIndex(failAt)

\* SynapseCollector.scan_workspace_artifacts: the lists filled up to the
\* first failing call; the failure is logged and the dict returned as it is.
scan_workspace_artifacts(workspace_name, failAt) ==
    LET up == SynapseUpstream(workspace_name)
        items(step, kind, withType) ==
            IF Listed(step, failAt)
            THEN [i \in 1..Len(up[step]) |->
                    IF withType
                    THEN [id |-> ArtifactId(workspace_name, kind, up[step][i].name),
                          name |-> up[step][i].name,
                          type |-> up[step][i].type,
                          workspace |-> workspace_name]
                    ELSE [id |-> ArtifactId(workspace_name, kind, up[step][i].name),
                          name |-> up[step][i].name,
                          workspace |-> workspace_name]]
            ELSE <<>>
    IN  [pipelines |-> items("pipelines", "pipeline", FALSE),
         notebooks |-> items("notebooks", "notebook", FALSE),
         datasets |-> items("datasets", "dataset", TRUE),
         linked_services |-> items("linked_services", "linkedService", TRUE)]

SynapseFailures == {"none", "client", "pipelines", "notebooks", "datasets", "linked_services"}

-----------------------------------------------------------------------------
(* The scan blocks of the page script: the body of each try statement *)

\* Cypher's regular-expression flag (?i): the comparison ignores case.
Lower(str) ==
    CASE str = "Microsoft.Synapse/workspaces"     -> "microsoft.synapse/workspaces"
      [] str = "Microsoft.DataFactory/factories"  -> "microsoft.datafactory/factories"
      [] OTHER                                    -> str

\* MATCH (r:Resource) WHERE r.type =~ '(?i)<pattern>': a literal pattern
\* matches the whole value, case ignored; a NULL type matches nothing.
ResourcesOfType(G, pattern) ==
    {n \in G : n.label = "Resource" /\ n.props.type # NULL
                /\ Lower(n.props.type) = pattern}

\* What binding a statement that reads the columns cols of a node table
\* raises: RuntimeError when a column is not declared, else nothing.
BindError(label, cols) ==
    IF cols \subseteq (NodeCols(label) \cup {"id"}) THEN None ELSE "RuntimeError"

RECURSIVE ingest_subscriptions(_, _)
ingest_subscriptions(G, subs) ==
    IF subs = <<>>
    THEN G
    ELSE ingest_subscriptions(
             upsert_subscription(G, [subscriptionId |-> Get(Head(subs), "subscriptionId"),
                                     displayName |-> Get(Head(subs), "name")]),
             Tail(subs))

RECURSIVE ingest_resources(_, _, _)
ingest_resources(G, E, resources) ==
    IF resources = <<>>
    THEN Result(G, E, None)
    ELSE LET res == Head(resources)
             G1 == upsert_resource(G, res)
             E1 == IF Falsy(Get(res, "subscriptionId"))
                   THEN E
                   ELSE link_subscription_resource(G1, E, Get(res, "subscriptionId"),
                                                   Get(res, "id"))
         IN  ingest_resources(G1, E1, Tail(resources))

\* The inventory scan with its two parts in the other order.
scan_azure_ResourcesFirst(G, E, subs, resources) ==
    IF resources.raised
    THEN Result(G, E, "CollectorError")
    ELSE LET r == ingest_resources(G, E, resources.data)
         IN  IF subs.raised
             THEN Result(r.G, r.E, "CollectorError")
             ELSE Result(ingest_subscriptions(r.G, subs.data), r.E, None)

\* scan_azure: subscriptions first, then resources and their links.  A
\* collector call that raises leaves the try body; what was written stays.
scan_azure(G, E, subs, resources) ==
    IF subs.raised
    THEN Result(G, E, "CollectorError")
    ELSE LET G1 == ingest_subscriptions(G, subs.data)
         IN  IF resources.raised
             THEN Result(G1, E, "CollectorError")
             ELSE ingest_resources(G1, E, resources.data)

RECURSIVE ingest_users(_, _)
ingest_users(G, users) ==
    IF users = <<>> THEN G ELSE ingest_users(upsert_user(G, Head(users)), Tail(users))

\* scan_m365: get_all_users catches its own errors and returns a list;
\* only building the collector can raise.
scan_m365(G, E, users) ==
    IF users.raised
    THEN Result(G, E, "CollectorError")
    ELSE Result(ingest_users(G, users.data), E, None)

\* scan_pbi: PowerBICollector() is called without the three arguments its
\* __init__ requires, which raises TypeError before anything else runs.
scan_pbi(G, E) == Result(G, E, "TypeError")

\* The outcome of an artifact-family try body: the graph it left, what it
\* raised, and the anchors whose collector it invoked.
Scanned(G, E, ret, calls) == [G |-> G, E |-> E, ret |-> ret, calls |-> calls]

RECURSIVE ingest_synapse(_, _, _)
ingest_synapse(st, rows, failAt) ==
    IF st.ret # None \/ rows = {}
    THEN st
    ELSE LET row == CHOOSE n \in rows : TRUE
             artifacts == scan_workspace_artifacts(row.props.name, failAt)
             r == upsert_synapse_artifacts(st.G, st.E, row.id, artifacts)
         IN  ingest_synapse(Scanned(r.G, r.E, r.ret, st.calls \cup {row.id}),
                            rows \ {row}, failAt)

\* scan_synapse: the anchors are read from the graph; none means a warning
\* and nothing else.
scan_synapse(G, E, failAt) ==
    LET rows == ResourcesOfType(G, "microsoft.synapse/workspaces")
    IN  IF BindError("Resource", {"id", "name"}) # None
        THEN Scanned(G, E, BindError("Resource", {"id", "name"}), {})
        ELSE ingest_synapse(Scanned(G, E, None, {}), rows, failAt)

RECURSIVE ingest_adf(_, _, _)
ingest_adf(st, rows, artifacts) ==
    IF st.ret # None \/ rows = {}
    THEN st
    ELSE LET row == CHOOSE n \in rows : TRUE
             r == upsert_adf_artifacts(st.G, st.E, row.id, artifacts)
         IN  ingest_adf(Scanned(r.G, r.E, r.ret, st.calls \cup {row.id}),
                        rows \ {row}, artifacts)

\* scan_adf: its anchor statement returns r.subscriptionId.
scan_adf(G, E, artifacts) ==
    LET cols == {"id", "name", "resourceGroup", "subscriptionId"}
        rows == ResourcesOfType(G, "microsoft.datafactory/factories")
    IN  IF BindError("Resource", cols) # None
        THEN Scanned(G, E, BindError("Resource", cols), {})
        ELSE ingest_adf(Scanned(G, E, None, {}), rows, artifacts)

\* WHERE r.type = 'microsoft.sql/servers/databases' OR r.type = 'microsoft.sql/servers'
SqlResources(G) ==
    {n \in G : n.label = "Resource"
               /\ n.props.type \in {"microsoft.sql/servers/databases",
                                     "microsoft.sql/servers"}}

\* The ids of the Resource rows an artifact family's type filter selects.
Anchors(G, family) ==
    {n.id : n \in (CASE family = "synapse" -> ResourcesOfType(G, "microsoft.synapse/workspaces")
                      [] family = "adf"     -> ResourcesOfType(G, "microsoft.datafactory/factories")
                      [] family = "sql"     -> SqlResources(G))}

\* scan_sql: its anchor statement returns r.subscriptionId too; past it,
\* the body calls db.upsert_sql_schema, which DBManager does not define.
scan_sql(G, E) ==
    LET cols == {"id", "name", "resourceGroup", "subscriptionId"}
        rows == SqlResources(G)
    IN  IF BindError("Resource", cols) # None
        THEN Scanned(G, E, BindError("Resource", cols), {})
        ELSE IF rows = {}
             THEN Scanned(G, E, None, {})
             ELSE Scanned(G, E, "AttributeError", {(CHOOSE n \in rows : TRUE).id})

\* A handler that catches RuntimeError only: anything else leaves the block.
ExceptRuntimeError(exc) ==
    IF exc = None THEN [status |-> "Succeeded", escaped |-> None]
    ELSE IF exc = "RuntimeError" THEN [status |-> "Failed", escaped |-> None]
    ELSE [status |-> "Running", escaped |-> exc]

\* try: <body> except Exception as e: st.error(...): the body ran to its
\* end, or whatever it raised is caught and shown.
ExceptException(exc) ==
    IF exc = None
    THEN [status |-> "Succeeded", escaped |-> None]
    ELSE [status |-> "Failed", escaped |-> None]

-----------------------------------------------------------------------------
(* One run of the page script: the scan blocks, in order *)

\* The user acts on the page and the script runs again from its top.  A
\* st.button is True only in the run its click started, so at most one scan
\* button is set in a run.  status[t] is the course of the latest scan of
\* type t: a new click starts it anew, the other types keep their outcome.
Rerun ==
    /\ pc = Dashboard
    /\ \E B \in {{}} \cup {{t} : t \in ScanTypes} :
          /\ buttons' = B
          /\ status' = [t \in ScanTypes |-> IF t \in B THEN "Idle" ELSE status[t]]
    /\ pc' = 1
    /\ escaped' = None
    /\ UNCHANGED <<db, sent, prevSent, infra>>

\* if scan_x: with the button not set.
SkipBlock ==
    /\ pc < Dashboard
    /\ Blocks[pc] \notin buttons
    /\ pc' = pc + 1
    /\ UNCHANGED <<db, buttons, status, escaped, sent, prevSent, infra>>

\* if scan_x: with the button set: the spinner opens.
StartScan ==
    /\ pc < Dashboard
    /\ Blocks[pc] \in buttons
    /\ status[Blocks[pc]] = "Idle"
    /\ status' = [status EXCEPT ![Blocks[pc]] = "Running"]
    /\ UNCHANGED <<db, pc, buttons, escaped, sent, prevSent, infra>>

Running(t) == pc < Dashboard /\ Blocks[pc] = t /\ status[t] = "Running"

\* The try statement of block t with body result r: the graph the body
\* left, the handler's verdict, and the script moving on (or ending, when
\* the exception left the block).
EndScan(t, r, call) ==
    LET h == ExceptException(r.ret)
    IN  /\ nodes' = r.G
        /\ edges' = r.E
        /\ last' = call
        /\ status' = [status EXCEPT ![t] = h.status]
        /\ escaped' = h.escaped
        /\ pc' = IF h.escaped = None THEN pc + 1 ELSE Dashboard
        /\ UNCHANGED <<missed, buttons, sent, prevSent, infra>>

\* History: the call before this one was an inventory scan that ran to its
\* end on the same upstream data.
RepeatOf(call, subs, resources) ==
    /\ call.op = "scan_azure"
    /\ call.ret = None
    /\ call.subs = subs
    /\ call.resources = resources

ScanAzure ==
    /\ Running("azure")
    /\ \E subs \in SubscriptionOutcomes, resources \in ResourceOutcomes :
          LET r == scan_azure(nodes, edges, subs, resources)
          IN  EndScan("azure", r, [op |-> "scan_azure", subs |-> subs,
                                   resources |-> resources,
                                   repeat |-> RepeatOf(last, subs, resources),
                                   ret |-> r.ret])

ScanM365 ==
    /\ Running("m365")
    /\ \E users \in UserOutcomes \cup {Raised} :
          LET r == scan_m365(nodes, edges, users)
          IN  EndScan("m365", r, [op |-> "scan_m365", users |-> users, ret |-> r.ret])

ScanPbi ==
    /\ Running("pbi")
    /\ LET r == scan_pbi(nodes, edges)
       IN  EndScan("pbi", r, [op |-> "scan_pbi", ret |-> r.ret])

ScanSynapse ==
    /\ Running("synapse")
    /\ \E failAt \in SynapseFailures :
          LET r == scan_synapse(nodes, edges, failAt)
          IN  EndScan("synapse", r, [op |-> "scan_synapse", failAt |-> failAt,
                                     calls |-> r.calls,
                                     anchors |-> Anchors(nodes, "synapse"),
                                     wrote |-> (r.G # nodes \/ r.E # edges),
                                     ret |-> r.ret])

ScanAdf ==
    /\ Running("adf")
    /\ \E artifacts \in {a \in AdfArtifacts : \A k \in DOMAIN a : Len(a[k]) = 1} :
          LET r == scan_adf(nodes, edges, artifacts)
          IN  EndScan("adf", r, [op |-> "scan_adf", calls |-> r.calls,
                                 anchors |-> Anchors(nodes, "adf"),
                                 wrote |-> (r.G # nodes \/ r.E # edges),
                                 ret |-> r.ret])

ScanSql ==
    /\ Running("sql")
    /\ LET r == scan_sql(nodes, edges)
       IN  EndScan("sql", r, [op |-> "scan_sql", calls |-> r.calls,
                              anchors |-> Anchors(nodes, "sql"),
                              wrote |-> (r.G # nodes \/ r.E # edges),
                              ret |-> r.ret])

NextApp ==
    \/ Rerun
    \/ SkipBlock
    \/ StartScan
    \/ ScanAzure
    \/ ScanM365
    \/ ScanPbi
    \/ ScanSynapse
    \/ ScanAdf
    \/ ScanSql

SpecApp == Init /\ [][NextApp]_vars

-----------------------------------------------------------------------------
(* Asset Catalog: the substring search of the second tab *)

\* A search term is a sequence of characters; the longest one typed.
MaxTerm == 1

TermChars == {"'"}

\* A term that closes the literal, adds a SET clause on the alias r and
\* comments out the rest of its line.
SetText == " SET r.location = 'x' "

LineComment == "//"

Injection == <<"'", SetText, LineComment>>

SearchTerms ==
    UNION {[1..n -> TermChars] : n \in 1..MaxTerm}
    \cup {<<"v", "m">>, <<"V", "M">>}

\* The terms of a user who types Cypher into the search box.
CraftedTerms == {Injection}

AssetTypes == {"All", "User", "Resource", "PBIReport", "PBIDataset", "SQLTable"}

\* The four f-strings, as their literal pieces around the {search_term}
\* fields and their line breaks, in the order the script reaches them.
SearchKinds == <<"User", "Resource", "PBIReport", "SQLTable">>

Hole == "{search_term}"

SearchTemplate(kind) ==
    CASE kind = "User" ->
           <<"MATCH (u:User) ", "\n",
             "WHERE u.displayName CONTAINS '", Hole,
             "' OR u.mail CONTAINS '", Hole, "'\n",
             "RETURN 'User' AS Type, u.displayName AS Name, u.mail AS Details", "\n",
             "LIMIT 20", "\n">>
      [] kind = "Resource" ->
           <<"MATCH (r:Resource) ", "\n",
             "WHERE r.name CONTAINS '", Hole,
             "' OR r.type CONTAINS '", Hole,
             "' OR r.location CONTAINS '", Hole, "'\n",
             "RETURN 'Resource' AS Type, r.name AS Name, r.type AS ResourceType, r.location AS Location", "\n",
             "LIMIT 20", "\n">>
      [] kind = "PBIReport" ->
           <<"MATCH (p:PBIReport) ", "\n",
             "WHERE p.name CONTAINS '", Hole, "'\n",
             "RETURN 'Power BI Report' AS Type, p.name AS Name, p.id AS ID", "\n",
             "LIMIT 20", "\n">>
      [] kind = "SQLTable" ->
           <<"MATCH (t:SQLTable) ", "\n",
             "WHERE t.name CONTAINS '", Hole,
             "' OR t.schema CONTAINS '", Hole, "'\n",
             "RETURN 'SQL Table' AS Type, t.schema AS Schema, t.name AS Name", "\n",
             "LIMIT 20", "\n">>

\* The variable each statement binds, and the first column its WHERE tests.
Alias(kind) ==
    CASE kind = "User" -> "u" [] kind = "Resource" -> "r"
      [] kind = "PBIReport" -> "p" [] kind = "SQLTable" -> "t"

FirstCol(kind) ==
    CASE kind = "User" -> "displayName" [] OTHER -> "name"

\* f"...{search_term}...": the term's characters take the field's place.
RECURSIVE FString(_, _)
FString(template, search_term) ==
    IF template = <<>>
    THEN <<>>
    ELSE (IF Head(template) = Hole THEN search_term ELSE <<Head(template)>>)
         \o FString(Tail(template), search_term)

\* The characters of the strings the catalog holds (the empty string has
\* none).
Chars(str) ==
    CASE str = "vm1" ->
           <<"v", "m", "1">>
      [] str = "syn1" ->
           <<"s", "y", "n", "1">>
      [] str = "adf1" ->
           <<"a", "d", "f", "1">>
      [] str = "microsoft.compute/virtualmachines" ->
           <<"m", "i", "c", "r", "o", "s", "o", "f", "t", ".", "c", "o", "m", "p", "u", "t", "e", "/", "v", "i", "r", "t", "u", "a", "l", "m", "a", "c", "h", "i", "n", "e", "s">>
      [] str = "microsoft.synapse/workspaces" ->
           <<"m", "i", "c", "r", "o", "s", "o", "f", "t", ".", "s", "y", "n", "a", "p", "s", "e", "/", "w", "o", "r", "k", "s", "p", "a", "c", "e", "s">>
      [] str = "Microsoft.Synapse/workspaces" ->
           <<"M", "i", "c", "r", "o", "s", "o", "f", "t", ".", "S", "y", "n", "a", "p", "s", "e", "/", "w", "o", "r", "k", "s", "p", "a", "c", "e", "s">>
      [] str = "Microsoft.DataFactory/factories" ->
           <<"M", "i", "c", "r", "o", "s", "o", "f", "t", ".", "D", "a", "t", "a", "F", "a", "c", "t", "o", "r", "y", "/", "f", "a", "c", "t", "o", "r", "i", "e", "s">>
      [] str = "eastus" ->
           <<"e", "a", "s", "t", "u", "s">>
      [] str = "westus" ->
           <<"w", "e", "s", "t", "u", "s">>
      [] str = "Ann" ->
           <<"A", "n", "n">>
      [] str = "Bob" ->
           <<"B", "o", "b">>
      [] str = "ann@x" ->
           <<"a", "n", "n", "@", "x">>
      [] str = "bob@x" ->
           <<"b", "o", "b", "@", "x">>
      [] str = "Revenue" ->
           <<"R", "e", "v", "e", "n", "u", "e">>
      [] str = "Paginated" ->
           <<"P", "a", "g", "i", "n", "a", "t", "e", "d">>
      [] OTHER -> <<>>

\* Kuzu's CONTAINS: the needle occurs in the hay, character for character.
Contains(hay, needle) ==
    \E i \in 0..(Len(hay) - Len(needle)) : SubSeq(hay, i + 1, i + Len(needle)) = needle

\* A CONTAINS that ignores case.
ContainsIgnoringCase(hay, needle) ==
    LET low(c) == CASE c = "V" -> "v" [] c = "M" -> "m" [] c = "S" -> "s"
                    [] c = "D" -> "d" [] c = "F" -> "f" [] c = "A" -> "a"
                    [] c = "B" -> "b" [] c = "R" -> "r" [] c = "P" -> "p"
                    [] OTHER -> c
        lower(q) == [i \in DOMAIN q |-> low(q[i])]
    IN  Contains(lower(hay), lower(needle))

\* The columns the WHERE clause of each statement tests.
SearchCols(kind) ==
    CASE kind = "User"      -> {"displayName", "mail"}
      [] kind = "Resource"  -> {"name", "type", "location"}
      [] kind = "PBIReport" -> {"name"}
      [] kind = "SQLTable"  -> {"name", "schema"}

\* The rows of a MATCH whose WHERE tests the columns cols against one
\* literal: a NULL column matches nothing.
MatchesWhere(G, kind, cols, literal) ==
    {n \in G : /\ n.label = kind
               /\ \E col \in cols :
                     /\ n.props[col] # NULL
                     /\ Contains(Chars(n.props[col]), literal)}

\* The rows a statement that ran as written returns.
Matches(G, kind, search_term) ==
    MatchesWhere(G, kind, SearchCols(kind), search_term)

\* db.conn.execute(text) with no parameters argument.
Statement(kind, search_term) ==
    [kind |-> kind, text |-> FString(SearchTemplate(kind), search_term), params |-> <<>>]

\* The lexer drops a line comment: everything from // to the end of its
\* line.  (In every term of SearchTerms the // stands outside a literal.)
EndsLine(token) == token \in {"\n", "'\n"}

RECURSIVE StripComments(_, _)
StripComments(text, inComment) ==
    IF text = <<>>
    THEN <<>>
    ELSE IF inComment
    THEN IF EndsLine(Head(text))
         THEN <<"\n">> \o StripComments(Tail(text), FALSE)
         ELSE StripComments(Tail(text), TRUE)
    ELSE IF Head(text) = LineComment
    THEN StripComments(Tail(text), TRUE)
    ELSE <<Head(text)>> \o StripComments(Tail(text), FALSE)

\* The statement as the parser sees it.  A quote character coming from the
\* term closes the string literal early.  1 .. 3 of Quoted are the WHERE
\* piece, the closing quote and what follows it.
Quoted(stmt) ==
    LET text == StripComments(stmt.text, FALSE)
        at   == {i \in DOMAIN text : text[i] = "'"}
    IN  IF at = {}
        THEN <<>>
        ELSE SubSeq(text, (CHOOSE i \in at : \A j \in at : i <= j) - 1, Len(text))

\* The statement is MATCH .. WHERE col CONTAINS '' SET .. RETURN .. LIMIT:
\* after the early-closed literal comes the SET clause, then the end of the
\* line, and no further quote from the term.
IsUpdate(stmt) ==
    /\ \E i \in DOMAIN stmt.text : stmt.text[i] = "'"
    /\ LET q == Quoted(stmt)
       IN  /\ Len(q) >= 4
           /\ q[3] = SetText
           /\ q[4] = "\n"
           /\ \A i \in 3..Len(q) : q[i] # "'"

\* What executing the statement raises.  An early-closed literal followed
\* by anything but a clause is text the parser rejects; a table the schema
\* lacks, or a variable the statement does not bind, is rejected by the
\* binder.
ExecuteError(stmt) ==
    IF \E i \in DOMAIN stmt.text : stmt.text[i] = "'"
    THEN IF stmt.kind \in NodeLabels /\ Alias(stmt.kind) = "r" /\ IsUpdate(stmt)
         THEN None
         ELSE "RuntimeError"
    ELSE IF stmt.kind \notin NodeLabels THEN "RuntimeError" ELSE None

\* The rows the statement's MATCH .. WHERE selects.
Selected(G, stmt, search_term) ==
    IF IsUpdate(stmt)
    THEN MatchesWhere(G, stmt.kind, {FirstCol(stmt.kind)}, <<>>)
    ELSE Matches(G, stmt.kind, search_term)

\* conn.execute(text): the graph after the statement, in its own
\* transaction.  SET assigns on every selected row.
execute_search(G, stmt, search_term) ==
    IF ExecuteError(stmt) = None /\ IsUpdate(stmt)
    THEN {IF n \in Selected(G, stmt, search_term)
          THEN SetProps(n, [location |-> "x"])
          ELSE n : n \in G}
    ELSE G

\* The try body: each block whose type is selected sends its statement; the
\* first one that raises ends the body.  st.G is the graph so far.
RECURSIVE run_search(_, _, _, _)
run_search(st, kinds, search_term, asset_type) ==
    IF kinds = <<>>
    THEN st
    ELSE IF asset_type \notin {"All", Head(kinds)}
    THEN run_search(st, Tail(kinds), search_term, asset_type)
    ELSE LET stmt == Statement(Head(kinds), search_term)
             G1   == execute_search(st.G, stmt, search_term)
             rows == {<<n.label, n.id>> : n \in Selected(G1, stmt, search_term)}
         IN  IF ExecuteError(stmt) # None
             THEN [st EXCEPT !.sent = Append(st.sent, stmt), !.ret = ExecuteError(stmt)]
             ELSE run_search([st EXCEPT !.G = G1,
                                        !.sent = Append(st.sent, stmt),
                                        !.shown = st.shown \cup rows],
                             Tail(kinds), search_term, asset_type)

SearchOver(terms) ==
    /\ \E search_term \in terms, asset_type \in AssetTypes :
          LET r == run_search([G |-> nodes, sent |-> <<>>, shown |-> {}, ret |-> None],
                              SearchKinds, search_term, asset_type)
          IN  /\ nodes' = r.G
              /\ sent' = r.sent
              /\ prevSent' = sent
              /\ last' = [op |-> "search", term |-> search_term,
                          asset_type |-> asset_type, shown |-> r.shown,
                          ret |-> r.ret]
    /\ UNCHANGED <<edges, missed, pc, buttons, status, escaped, infra>>

Search == SearchOver(SearchTerms)

CraftedSearch == SearchOver(CraftedTerms)

NextSearch ==
    \/ Search

SpecSearch == Init /\ [][NextSearch]_vars

\* The catalog over a graph that holds resources.
NextCatalog ==
    \/ UpsertResource
    \/ Search

SpecCatalog == Init /\ [][NextCatalog]_vars

\* The catalog searched with crafted terms.
NextCrafted ==
    \/ UpsertResource
    \/ CraftedSearch

SpecCrafted == Init /\ [][NextCrafted]_vars

-----------------------------------------------------------------------------
(* Session threads on the one cached DBManager.  Streamlit runs each       *)
(* session's script in a thread of its own; get_db hands all of them the   *)
(* same DBManager and connection, and no method takes a lock.  A single    *)
(* conn.execute is one auto-committed transaction; a method with two       *)
(* execute calls is two.                                                   *)

\* upsert_pbi_workspace: one statement.
SessionUpsertWorkspace ==
    \E w \in Writers, d \in WsRecords :
        /\ writers[w].at = "idle"
        /\ nodes' = upsert_pbi_workspace(nodes, d)
        /\ last' = [op |-> "upsert_pbi_workspace", by |-> w, data |-> d, ret |-> None]
        /\ UNCHANGED <<edges, missed, app, tables, warnings, writers, poll>>

\* upsert_pbi_report, first execute: the report's MERGE ... SET.
SessionMergeReport ==
    \E w \in Writers, d \in ReportRecords, workspace_id \in WsIds :
        /\ writers[w].at = "idle"
        /\ nodes' = upsert_pbi_report(nodes, edges, d, workspace_id).G
        /\ writers' = [writers EXCEPT ![w] = [at |-> "link", report_data |-> d,
                                              workspace_id |-> workspace_id]]
        /\ last' = [op |-> "upsert_pbi_report", by |-> w, data |-> d, ret |-> "running"]
        /\ UNCHANGED <<edges, missed, app, tables, warnings, poll>>

\* upsert_pbi_report, second execute: the workspace -> report link, against
\* the graph as it is by then.
SessionLinkReport ==
    \E w \in Writers :
        /\ writers[w].at = "link"
        /\ edges' = MergeRel(nodes, edges, "PBIContains", writers[w].workspace_id,
                             Get(writers[w].report_data, "id"))
        /\ writers' = [writers EXCEPT ![w] = [at |-> "idle"]]
        /\ last' = [op |-> "upsert_pbi_report", by |-> w,
                    data |-> writers[w].report_data, ret |-> None]
        /\ UNCHANGED <<nodes, missed, app, tables, warnings, poll>>

NextSessions ==
    \/ SessionUpsertWorkspace
    \/ SessionMergeReport
    \/ SessionLinkReport

SpecSessions == Init /\ [][NextSessions]_vars

-----------------------------------------------------------------------------
(* PowerBICollector.run_metadata_scan: the Scanner API, chunk by chunk *)

\* The API limit the ids are chunked by.
ChunkSize == 100

\* The most workspaces a tenant lists.
MaxWorkspaces == 250

\* range(0, len(workspace_ids), 100): the number of chunks of n ids.
Chunks(n) == (n + ChunkSize - 1) \div ChunkSize

\* The workspace ids of a tenant that lists n of them, in the order listed.
WorkspaceIds(n) == [i \in 1..n |-> i]

Min(a, b) == IF a <= b THEN a ELSE b

\* workspace_ids[i:i + 101]: a slice one id too long.
chunks_Overlap(workspace_ids) ==
    [k \in 1..Chunks(Len(workspace_ids)) |->
        SubSeq(workspace_ids, (k - 1) * ChunkSize + 1,
               Min(k * ChunkSize + 1, Len(workspace_ids)))]

\* [workspace_ids[i:i + 100] for i in range(0, len(workspace_ids), 100)]
chunks(workspace_ids) ==
    [k \in 1..Chunks(Len(workspace_ids)) |->
        SubSeq(workspace_ids, (k - 1) * ChunkSize + 1,
               Min(k * ChunkSize, Len(workspace_ids)))]

\* What scanStatus answers in its "status" field (NULL: the field is absent).
ScanStatuses == {"NotStarted", "Running", "Succeeded", "Failed", NULL}

\* The for loop moves to its next chunk, or the method returns all_results.
NextChunk(p) ==
    IF p.chunk < Chunks(p.n)
    THEN [p EXCEPT !.at = "initiate", !.chunk = p.chunk + 1, !.seen = NULL]
    ELSE [p EXCEPT !.at = "done", !.seen = NULL]

RunMetadataScan ==
    /\ poll.at \in {"idle", "done", "raised"}
    /\ \E n \in 0..MaxWorkspaces :
          poll' = IF n = 0
                  THEN [at |-> "done", n |-> n, chunk |-> 0, results |-> 0, seen |-> NULL,
                        chunks |-> chunks(WorkspaceIds(n)), bodies |-> <<>>, failed |-> 0]
                  ELSE [at |-> "initiate", n |-> n, chunk |-> 1, results |-> 0,
                        seen |-> NULL,
                        chunks |-> chunks(WorkspaceIds(n)), bodies |-> <<>>, failed |-> 0]
    /\ UNCHANGED <<db, app, tables, warnings, writers>>

\* _initiate_scan: the chunk is posted as the body; 202 gives the scan id,
\* anything else is logged and the chunk is skipped.
InitiateScan ==
    /\ poll.at = "initiate"
    /\ \E status_code \in {202, 500} :
          LET posted == [poll EXCEPT !.bodies = Append(poll.bodies, poll.chunks[poll.chunk])]
          IN  poll' = IF status_code = 202
                      THEN [posted EXCEPT !.at = "get"]
                      ELSE NextChunk(posted)
    /\ UNCHANGED <<db, app, tables, warnings, writers>>

\* _wait_for_scan, one turn of while True: the request, then the two tests
\* on the status.  A request that raises leaves the method and its caller;
\* on Failed the method logs and returns False, and the caller's loop goes on
\* (poll.failed counts these chunks).
PollStatus ==
    /\ poll.at = "get"
    /\ \E response \in ScanStatuses \cup {"raise"} :
          poll' = CASE response = "raise"     -> [poll EXCEPT !.at = "raised"]
                    [] response = "Succeeded" -> [poll EXCEPT !.at = "result", !.seen = response]
                    [] response = "Failed"    ->
                         NextChunk([poll EXCEPT !.failed = poll.failed + 1])
                    [] OTHER                  -> [poll EXCEPT !.at = "sleep", !.seen = response]
    /\ UNCHANGED <<db, app, tables, warnings, writers>>

\* time.sleep(2), then the loop's next turn.
Sleep ==
    /\ poll.at = "sleep"
    /\ poll' = [poll EXCEPT !.at = "get"]
    /\ UNCHANGED <<db, app, tables, warnings, writers>>

\* _get_scan_result and all_results.append(result).
GetScanResult ==
    /\ poll.at = "result"
    /\ poll' = NextChunk([poll EXCEPT !.results = poll.results + 1])
    /\ UNCHANGED <<db, app, tables, warnings, writers>>

NextPoll ==
    \/ RunMetadataScan
    \/ InitiateScan
    \/ PollStatus
    \/ Sleep
    \/ GetScanResult

\* Every step of the method is taken once it can be: the thread runs.
SpecPoll ==
    /\ Init
    /\ [][NextPoll]_vars
    /\ WF_vars(InitiateScan)
    /\ WF_vars(PollStatus)
    /\ WF_vars(Sleep)
    /\ WF_vars(GetScanResult)

-----------------------------------------------------------------------------
(* DBManager.__init__ on a store that may already hold tables *)

\* The CREATE statements of _init_schema, in the order it issues them.
Declarations ==
    <<"User", "M365Group", "Subscription", "Resource",
      "PBIWorkspace", "PBIReport", "PBIDataset",
      "MemberOf", "Contains",
      "PBIContains", "PBIContainsDataset", "PBIFeeds",
      "SynapsePipeline", "SynapseNotebook", "SynapseDataset", "SynapseLinkedService",
      "SynapseContains", "SynapseContainsNotebook", "SynapseContainsDataset",
      "SynapseContainsLinkedService",
      "ADFPipeline", "ADFDataset", "ADFLinkedService",
      "ADFContainsPipeline", "ADFContainsDataset", "ADFContainsLinkedService">>

\* The most CREATE statements that fail, for a reason of the store's own,
\* in one run of _init_schema.
MaxFailures == 1

\* What conn.execute("CREATE ... TABLE name ...") raises, as the text the
\* handler looks for in the message: the table exists; or the statement
\* fails otherwise (the store refuses it, or a relationship table names a
\* node table that does not exist); or nothing.
ExecuteCreate(T, name, failing) ==
    IF name \in T
    THEN "already exists"
    ELSE IF name \in failing
            \/ (name \in RelTypes /\ ~({RelEnds(name)[1], RelEnds(name)[2]} \subseteq T))
    THEN "other"
    ELSE None

\* A handler that lets "already exists" out of the method.
create_table_ExistsRaises(st, name, failing) ==
    LET e == ExecuteCreate(st.tables, name, failing)
    IN  CASE e = None             -> [st EXCEPT !.tables = st.tables \cup {name}]
          [] e = "already exists" -> [st EXCEPT !.raised = "RuntimeError"]
          [] OTHER                -> [st EXCEPT !.warned = st.warned \cup {name}]

\* A handler that lets every other failure out of the method.
create_table_OtherRaises(st, name, failing) ==
    LET e == ExecuteCreate(st.tables, name, failing)
    IN  CASE e = None             -> [st EXCEPT !.tables = st.tables \cup {name}]
          [] e = "already exists" -> st
          [] OTHER                -> [st EXCEPT !.raised = "RuntimeError"]

\* _create_node_table / _create_rel_table: try the CREATE; except
\* RuntimeError: a message with "already exists" is passed over in silence,
\* any other is logged as a warning.  Neither raises.
create_table(st, name, failing) ==
    LET e == ExecuteCreate(st.tables, name, failing)
    IN  CASE e = None             -> [st EXCEPT !.tables = st.tables \cup {name}]
          [] e = "already exists" -> st
          [] OTHER                -> [st EXCEPT !.warned = st.warned \cup {name}]

\* _init_schema: the declarations one after the other; an exception that
\* leaves a create method leaves _init_schema too.
RECURSIVE init_schema(_, _, _)
init_schema(st, decls, failing) ==
    IF decls = <<>> \/ st.raised # None
    THEN st
    ELSE init_schema(create_table(st, Head(decls), failing), Tail(decls), failing)

\* The declarations whose CREATE the store may refuse: the first and the
\* last one, a node table that relationship tables refer to, a
\* relationship table, and a node table none refers to.
FailableTables ==
    {"User", "Resource", "Contains", "SynapsePipeline", "ADFContainsLinkedService"}

\* The subsets of S with at most k elements.
RECURSIVE SubsetsUpTo(_, _)
SubsetsUpTo(S, k) ==
    IF k = 0
    THEN {{}}
    ELSE LET P == SubsetsUpTo(S, k - 1)
         IN  P \cup {F \cup {x} : F \in P, x \in S}

\* A process starts: DBManager() on the store as the last process left it.
InitSchema ==
    /\ \E failing \in SubsetsUpTo(FailableTables, MaxFailures) :
          LET r == init_schema([tables |-> tables, warned |-> {}, raised |-> None],
                               Declarations, failing)
          IN  /\ tables' = r.tables
              /\ warnings' = r.warned
              /\ last' = [op |-> "init_schema", failing |-> failing,
                          created |-> r.tables \ tables, ret |-> r.raised]
    /\ UNCHANGED <<nodes, edges, missed, app, writers, poll>>

\* A store directory that no process has opened yet.
InitFresh ==
    /\ nodes = {}
    /\ edges = EmptyBag
    /\ last = [op |-> "init"]
    /\ missed = {}
    /\ pc = Dashboard
    /\ buttons = {}
    /\ status = [t \in ScanTypes |-> "Idle"]
    /\ escaped = None
    /\ sent = <<>>
    /\ prevSent = <<>>
    /\ tables = {}
    /\ warnings = {}
    /\ writers = [w \in Writers |-> [at |-> "idle"]]
    /\ poll = [at |-> "idle"]

NextSchema ==
    \/ InitSchema
    \/ UpsertUser
    \/ UpsertResource

SpecSchema == InitFresh /\ [][NextSchema]_vars

Next ==
    \/ UpsertUser
    \/ UpsertResource
    \/ UpsertSubscription
    \/ LinkSubscriptionResource

Spec == Init /\ [][Next]_vars

-----------------------------------------------------------------------------
(* Vocabulary of the properties *)

UpsertOps ==
    {"upsert_user", "upsert_resource", "upsert_subscription",
     "upsert_pbi_workspace", "upsert_pbi_report", "upsert_pbi_dataset"}

LinkOps == {"link_subscription_resource", "link_dataset_to_report"}

\* The key of the caller's record that carries a node attribute.
Field(label, col) ==
    CASE label = "User" /\ col = "upn"          -> "userPrincipalName"
      [] label = "Subscription" /\ col = "name" -> "displayName"
      [] OTHER                                  -> col

\* The attribute values a call gives: one per declared attribute whose key is
\* present in the caller's record.
Given(call) ==
    [c \in {x \in NodeCols(call.label) : Field(call.label, x) \in DOMAIN call.data}
        |-> call.data[Field(call.label, c)]]

\* The rows of the node a call addressed.
Target(call) == Match(nodes, call.label, call.id)

LastRel == Rel(last.rel, last.src, last.dst)

-----------------------------------------------------------------------------
(* Properties of the node and relationship upserts *)

\* C1: the graph never holds two nodes with the same (node type, id), and
\* after any upsert, a repeated one included, exactly one node has the
\* upserted id and it carries the attributes the call gave.
C1_OneNodePerKey ==
    /\ \A n1, n2 \in nodes : (n1.label = n2.label /\ n1.id = n2.id) => n1 = n2
    /\ last.op \in UpsertOps =>
          /\ Cardinality(Target(last)) = 1
          /\ \A n \in Target(last) : \A c \in DOMAIN Given(last) :
                n.props[c] = Given(last)[c]

\* C1 witness: an upsert was repeated with identical arguments (the row it
\* matched already carried exactly what the call wrote).
C1_Witness ==
    /\ last.op \in UpsertOps
    /\ last.before # {}
    /\ last.before = Target(last)

\* C2: an upsert of a key that already exists leaves the node with this
\* call's value for every attribute the call gives, whatever the earlier
\* call had stored (last write wins per field).
C2_LastWriteWins ==
    (last.op \in UpsertOps /\ last.before # {}) =>
        \A n \in Target(last) : \A c \in DOMAIN Given(last) :
            /\ n.props[c] = Given(last)[c]
            /\ \A b \in last.before :
                  b.props[c] # Given(last)[c] => n.props[c] # b.props[c]

\* C2 witness: the second upsert of a key gave a different value for every
\* attribute than the node held.
C2_Witness ==
    /\ last.op \in UpsertOps
    /\ last.before # {}
    /\ DOMAIN Given(last) # {}
    /\ \A b \in last.before : \A c \in DOMAIN Given(last) : b.props[c] # Given(last)[c]

\* C3 as stated: a link call with a missing endpoint returns false, creates
\* no relationship and no node, and does not raise.
C3_Original ==
    [][(last'.op \in LinkOps /\ ~last'.found) =>
          /\ last'.ret = "False"
          /\ nodes' = nodes
          /\ edges' = edges]_vars

\* C3 amended: a link call with a missing endpoint returns None (the method
\* has no return value), creates no relationship and no node, and does not
\* raise.
C3_MissingEndpointNoop ==
    [][(last'.op \in LinkOps /\ ~last'.found) =>
          /\ last'.ret = None
          /\ nodes' = nodes
          /\ edges' = edges]_vars

\* C3 witness: a link call was made while an endpoint did not exist.
C3_Witness ==
    /\ last.op \in LinkOps
    /\ ~last.found
    /\ LastRel \in missed

\* C4: when a link call that found an endpoint missing is made again after
\* both endpoints exist, exactly one relationship between them exists.
C4_Backfill ==
    (last.op \in LinkOps /\ last.found /\ LastRel \in missed) =>
        CopiesIn(LastRel, edges) = 1

\* C4 witness: the link was attempted while an endpoint was missing and
\* attempted again, for the first time, after both existed.
C4_Witness ==
    /\ last.op \in LinkOps
    /\ last.found
    /\ ~last.had
    /\ LastRel \in missed

\* The calls that run a relationship MERGE.
LinkingOps == LinkOps \cup {"upsert_pbi_report", "upsert_pbi_dataset"}

\* C5 as stated: link returns true when both endpoints exist and the
\* relationship was not there, false when it already existed; re-creating
\* leaves the edge set unchanged and no edge is ever held twice.
C5_Original ==
    [][last'.op \in LinkingOps =>
          /\ (last'.found /\ ~last'.had) => last'.ret = "True"
          /\ last'.had => (last'.ret = "False" /\ edges' = edges)
          /\ \A e \in BagToSet(edges') : CopiesIn(e, edges') = 1]_vars

\* C5 amended: link returns None in every case; it creates the relationship
\* when both endpoints exist and it was not there, leaves the edge set
\* unchanged when it was there or an endpoint is missing, and no edge is
\* ever held twice.
C5_LinkIdempotent ==
    [][last'.op \in LinkingOps =>
          /\ last'.ret = None
          /\ (last'.found /\ ~last'.had) =>
                edges' = edges (+) SetToBag({Rel(last'.rel, last'.src, last'.dst)})
          /\ (last'.had \/ ~last'.found) => edges' = edges
          /\ \A e \in BagToSet(edges') : CopiesIn(e, edges') = 1]_vars

\* C5 witness: a relationship that already existed was linked again.
C5_Witness ==
    /\ last.op \in LinkingOps
    /\ last.found
    /\ last.had
    /\ CopiesIn(LastRel, edges) = 1

\* C6: every relationship is of a declared type and joins two existing
\* nodes of the endpoint types declared for that type.
C6_ReferentialIntegrity ==
    \A e \in BagToSet(edges) :
        /\ e.rel \in RelTypes
        /\ Match(nodes, RelEnds(e.rel)[1], e.src) # {}
        /\ Match(nodes, RelEnds(e.rel)[2], e.dst) # {}

\* C6 witness: a batch was upserted against an anchor id that has no
\* Resource node, and its pipeline exists and is contained in the anchor
\* that does exist.
C6_Witness ==
    /\ last.op \in {"upsert_synapse_artifacts", "upsert_adf_artifacts"}
    /\ ~last.found
    /\ last.ret = None
    /\ \E e \in BagToSet(edges) : e.src # last.rid
    /\ \E n \in nodes : n.label # "Resource"

BatchOps == {"upsert_synapse_artifacts", "upsert_adf_artifacts"}

\* The artifact lists of a batch: the dict key, the node type of its items
\* and the containment relationship to the anchor.
ArtifactKinds(op) ==
    IF op = "upsert_synapse_artifacts"
    THEN {<<"pipelines", "SynapsePipeline", "SynapseContains">>,
          <<"notebooks", "SynapseNotebook", "SynapseContainsNotebook">>,
          <<"datasets", "SynapseDataset", "SynapseContainsDataset">>,
          <<"linked_services", "SynapseLinkedService", "SynapseContainsLinkedService">>}
    ELSE {<<"pipelines", "ADFPipeline", "ADFContainsPipeline">>,
          <<"datasets", "ADFDataset", "ADFContainsDataset">>,
          <<"linked_services", "ADFLinkedService", "ADFContainsLinkedService">>}

\* The items of a batch call, each with its kind.
ItemsOf(call) ==
    UNION {{<<k, call.artifacts[k[1]][i]>> : i \in 1..Len(call.artifacts[k[1]])}
           : k \in ArtifactKinds(call.op)}

\* The number of malformed items (items without an id) of a batch call.
MalformedCount(call) ==
    LET bad(k) == {i \in 1..Len(call.artifacts[k[1]]) :
                      "id" \notin DOMAIN call.artifacts[k[1]][i]}
        RECURSIVE Sum(_)
        Sum(K) == IF K = {} THEN 0
                  ELSE LET k == CHOOSE x \in K : TRUE
                       IN  Cardinality(bad(k)) + Sum(K \ {k})
    IN  Sum(ArtifactKinds(call.op))

\* C7 as stated: a batch with malformed items does not raise, every
\* well-formed item of it is in the graph and linked to the anchor, and the
\* batch reports as many failures as it has malformed items.
C7_Original ==
    (last.op \in BatchOps /\ MalformedCount(last) > 0) =>
        /\ last.ret # "KeyError"
        /\ \A x \in ItemsOf(last) :
              "id" \in DOMAIN x[2] =>
                  /\ Match(nodes, x[1][2], x[2].id) # {}
                  /\ last.found => BagIn(Rel(x[1][3], last.rid, x[2].id), edges)
        /\ last.ret = MalformedCount(last)

\* C8 as stated: every upsert writes every declared non-key attribute of the
\* node type, an absent optional field as an explicit empty value.
C8_Original ==
    last.op \in UpsertOps =>
        /\ last.set = NodeCols(last.label)
        /\ \A n \in Target(last) : \A c \in NodeCols(last.label) :
              Field(last.label, c) \notin DOMAIN last.data => n.props[c] \in {"", NULL}

\* C9: the search passes the term as a bound parameter: every statement
\* sent binds the term typed, and two searches send the same text for the
\* same node type whatever their terms.
C9_Original ==
    /\ last.op = "search" =>
         \A i \in DOMAIN sent :
            /\ "search_term" \in DOMAIN sent[i].params
            /\ sent[i].params["search_term"] = last.term
    /\ \A i \in DOMAIN sent, j \in DOMAIN prevSent :
          sent[i].kind = prevSent[j].kind => sent[i].text = prevSent[j].text

ScanTransitions == {<<"Idle", "Running">>, <<"Running", "Succeeded">>, <<"Running", "Failed">>}

\* C10: the latest scan of each type moves only Idle -> Running ->
\* Succeeded or Failed (a new click starts that type at Idle again); no
\* exception leaves a scan block; a scan that fails lets the script go on;
\* and a run never ends with its scan still Running, whatever the outcome
\* of the other types.
C10_ScanStateMachine ==
    [][/\ \A t \in ScanTypes :
            \/ status'[t] = status[t]
            \/ <<status[t], status'[t]>> \in ScanTransitions
            \/ pc = Dashboard /\ t \in buttons' /\ status'[t] = "Idle"
       /\ escaped' = None
       /\ (\E t \in ScanTypes : status[t] = "Running" /\ status'[t] = "Failed")
             => pc' = pc + 1
       /\ pc' = Dashboard =>
             \A t \in ScanTypes : status'[t] # "Running"]_vars

\* A run whose scan Succeeded while another type's latest scan is Failed.
C10_Witness ==
    /\ pc = Dashboard
    /\ escaped = None
    /\ \E t \in buttons, u \in ScanTypes :
          /\ u # t
          /\ status[u] = "Failed"
          /\ status[t] = "Succeeded"
          /\ last.op \in {"scan_azure", "scan_m365", "scan_synapse"}

\* The collector a scan invoked failed: a Resource Graph query raised, or a
\* listing call of the Synapse artifacts client raised for an anchor.
CollectorFailed(call) ==
    \/ call.op = "scan_azure" /\ (call.subs.raised \/ call.resources.raised)
    \/ call.op = "scan_synapse" /\ call.calls # {} /\ call.failAt # "none"

ScanOf(op) ==
    CASE op = "scan_azure" -> "azure"
      [] op = "scan_m365" -> "m365"
      [] op = "scan_pbi" -> "pbi"
      [] op = "scan_synapse" -> "synapse"
      [] op = "scan_adf" -> "adf"
      [] op = "scan_sql" -> "sql"

ScanOps == {"scan_azure", "scan_m365", "scan_pbi", "scan_synapse", "scan_adf", "scan_sql"}

\* C11: a scan whose collector failed ends Failed, never Succeeded.
C11_Original ==
    (last.op \in ScanOps /\ CollectorFailed(last)) => status[ScanOf(last.op)] # "Succeeded"

\* C12: an artifact-family scan invokes its collector and batch upsert once
\* for every anchor Resource its type filter selects, and for nothing else;
\* with no anchor it invokes no collector and writes nothing.
C12_Original ==
    last.op \in {"scan_synapse", "scan_adf", "scan_sql"} =>
        /\ last.calls = last.anchors
        /\ last.anchors = {} => ~last.wrote

\* C13: graph writes are serialized: while a session is between the two
\* statements of an upsert-then-link, the graph is written by that session
\* only.
C13_Original ==
    [][\A w \in Writers :
          writers[w].at # "idle" =>
              \/ nodes' = nodes /\ edges' = edges
              \/ writers'[w] # writers[w]]_vars

\* C14: _wait_for_scan always terminates: once it polls, it returns (or
\* raises) after finitely many turns, whatever the provider answers.
C14_Original == (poll.at = "get") ~> (poll.at \notin {"get", "sleep"})

\* C15: an inventory scan repeated right after one that ran to its end, on
\* the same upstream data, leaves the number of nodes and the number of
\* relationships as they were.
C15_RoundTrip ==
    [][(/\ status["azure"] = "Running"
        /\ last'.op = "scan_azure"
        /\ last'.repeat
        /\ last'.ret = None)
       => /\ Cardinality(nodes') = Cardinality(nodes)
          /\ BagCardinality(edges') = BagCardinality(edges)]_vars

\* A repeated scan of a subscription and its resource, the edge in place.
C15_Witness ==
    /\ last.op = "scan_azure"
    /\ last.repeat
    /\ last.ret = None
    /\ Len(last.subs.data) > 0
    /\ Len(last.resources.data) > 0
    /\ BagCardinality(edges) > 0

\* C16: after an inventory scan that ingested a subscription and a resource
\* whose subscriptionId names it, the Contains edge from the one to the
\* other exists.
C16_ContainsAfterScan ==
    (last.op = "scan_azure" /\ last.ret = None) =>
        \A i \in DOMAIN last.subs.data, j \in DOMAIN last.resources.data :
            last.resources.data[j].subscriptionId = last.subs.data[i].subscriptionId
            => BagIn(Rel("Contains", last.subs.data[i].subscriptionId,
                         last.resources.data[j].id), edges)

\* A first inventory scan (nothing was in the graph) that ingested a
\* subscription and a resource of it.
C16_Witness ==
    /\ last.op = "scan_azure"
    /\ last.ret = None
    /\ ~last.repeat
    /\ \E i \in DOMAIN last.subs.data, j \in DOMAIN last.resources.data :
          last.resources.data[j].subscriptionId = last.subs.data[i].subscriptionId
    /\ status = [t \in ScanTypes |-> IF t = "azure" THEN "Succeeded" ELSE "Idle"]

\* C17: the search returns a Resource exactly when the term, compared
\* ignoring case, is a substring of its name, type or location.
C17_Original ==
    (/\ last.op = "search"
     /\ \E i \in DOMAIN sent : sent[i].kind = "Resource" /\ ExecuteError(sent[i]) = None)
    => {row[2] : row \in {r \in last.shown : r[1] = "Resource"}}
       = {n.id : n \in {r \in nodes :
                          /\ r.label = "Resource"
                          /\ \E col \in {"name", "type", "location"} :
                                /\ r.props[col] # NULL
                                /\ ContainsIgnoringCase(Chars(r.props[col]), last.term)}}

\* The types _init_schema declares.
Declared == {Declarations[i] : i \in DOMAIN Declarations}

\* C18: _init_schema is idempotent: on a store where every declared type
\* exists it raises nothing, creates nothing, logs nothing and leaves the
\* schema and the graph data as they are; and no run creates a type that
\* already exists.
C18_SchemaIdempotent ==
    [][last'.op = "init_schema" =>
          /\ last'.created = tables' \ tables
          /\ tables \subseteq tables'
          /\ nodes' = nodes /\ edges' = edges
          /\ Declared \subseteq tables =>
                /\ tables' = tables
                /\ warnings' = {}
                /\ last'.ret = None]_vars

\* _init_schema ran on a complete store that holds data.
C18_Witness ==
    /\ last.op = "init_schema"
    /\ last.created = {}
    /\ last.ret = None
    /\ Declared \subseteq tables
    /\ nodes # {}

\* C19: a CREATE that fails for a reason other than "already exists" is
\* logged, _init_schema does not raise, and every later declaration is
\* still attempted: each declared type exists afterwards or was logged.
C19_PartialSchema ==
    last.op = "init_schema" =>
        /\ last.ret = None
        /\ (last.failing \ tables) \subseteq warnings
        /\ \A name \in Declared : name \in tables \/ name \in warnings

\* A run in which a CREATE failed and a later declaration was created.
C19_Witness ==
    /\ last.op = "init_schema"
    /\ \E i, j \in DOMAIN Declarations :
          /\ i < j
          /\ Declarations[i] \in last.failing
          /\ Declarations[i] \in warnings
          /\ Declarations[j] \in last.created

\* The types the page's statements read or its scans write.
FacadeTypes ==
    {"User", "Subscription", "Resource", "PBIWorkspace", "PBIReport", "PBIDataset",
     "ADFPipeline", "Contains", "PBIContains", "PBIFeeds", "ADFContainsPipeline",
     "SQLTable", "SQLColumn", "SQLHasColumn", "SQLForeignKey"}

\* C20: after _init_schema with no failure, every type the page reads or
\* writes exists in the store.
C20_Original ==
    (last.op = "init_schema" /\ warnings = {} /\ last.ret = None)
    => FacadeTypes \subseteq tables

Keys(G) == {<<n.label, n.id>> : n \in G}

\* C22: no scan deletes a node: whatever the scan type and its outcome, the
\* keys in the graph after a step are a superset of those before.
C22_NoNodeDeleted == [][Keys(nodes) \subseteq Keys(nodes')]_vars

\* A scan ended Failed on a graph that holds nodes of two scans.
C22_Witness ==
    /\ last.op \in ScanOps
    /\ last.ret # None
    /\ status[ScanOf(last.op)] = "Failed"
    /\ \E n, k \in nodes : n.label = "Resource" /\ k.label = "SynapsePipeline"

\* C23: when a collector call raises during a scan, the handler catches it
\* (the scan ends Failed, nothing leaves the block), no relationship is
\* touched, and every node that was in the graph is still there with its
\* values, but for the subscriptions this scan itself upserted before the
\* failing call.
C23_FailureKeepsData ==
    [][(/\ last'.op \in {"scan_azure", "scan_m365", "scan_pbi"}
        /\ status[ScanOf(last'.op)] = "Running"
        /\ last'.ret \in {"CollectorError", "TypeError"})
       => /\ status'[ScanOf(last'.op)] = "Failed"
          /\ escaped' = None
          /\ edges' = edges
          /\ \A n \in nodes :
                \/ n \in nodes'
                \/ /\ last'.op = "scan_azure"
                   /\ ~last'.subs.raised
                   /\ n.label = "Subscription"
                   /\ \E i \in DOMAIN last'.subs.data :
                         /\ last'.subs.data[i].subscriptionId = n.id
                         /\ \E k \in nodes' :
                               /\ k.label = n.label /\ k.id = n.id
                               /\ k.props.name = last'.subs.data[i].name
                               /\ k.props.state = n.props.state]_vars

\* The resource query raised after the subscriptions were upserted, on a
\* graph that held resources and their edges.
C23_Witness ==
    /\ last.op = "scan_azure"
    /\ ~last.subs.raised
    /\ Len(last.subs.data) > 0
    /\ last.resources.raised
    /\ status["azure"] = "Failed"
    /\ BagCardinality(edges) > 0
    /\ \E n \in nodes : n.label = "Resource"



\* ---------------------------------------------------------------------
\* C24 (as stated): a query of the catalog is read-only: a search leaves
\* the node set, every attribute value and the relationship set as they
\* were, for every search term and asset type.
C24_Original ==
    [][last'.op = "search" => nodes' = nodes /\ edges' = edges]_vars

\* ---------------------------------------------------------------------
\* C25 (as stated): a Resource node stores id, name, type, location,
\* resourceGroup and subscriptionId: after an inventory record is upserted,
\* the node has each of these attributes with the record's value.
C25_Original ==
    (last.op = "upsert_resource" /\ last.ret = None)
    => /\ Target(last) # {}
       /\ \A n \in Target(last) :
             /\ n.id = last.data["id"]
             /\ \A f \in {"name", "type", "location", "resourceGroup", "subscriptionId"} :
                   /\ f \in DOMAIN n.props
                   /\ n.props[f] = last.data[f]

\* ---------------------------------------------------------------------
\* C26 (as stated): a batch whose scan the provider reports Failed is
\* retried or reported to the caller as failed: run_metadata_scan never
\* returns normally after a Failed status with that batch's data missing.
C26_Original ==
    (poll.at = "done") => (poll.failed = 0 \/ poll.results = Len(poll.chunks))

\* The chunks laid end to end.
RECURSIVE Flatten(_)
Flatten(seqs) ==
    IF seqs = <<>> THEN <<>> ELSE Head(seqs) \o Flatten(Tail(seqs))

\* ---------------------------------------------------------------------
\* C28: run_metadata_scan splits the workspace ids into consecutive chunks
\* of at most 100: laid end to end the chunks are the input (every id in
\* exactly one chunk, in input order), every chunk but the last has exactly
\* 100 ids and none is empty, the scans are initiated chunk by chunk in that
\* order, and an empty input initiates no scan and returns no result.
C28_Chunking ==
    (poll.at # "idle")
    => /\ Flatten(poll.chunks) = WorkspaceIds(poll.n)
       /\ \A k \in DOMAIN poll.chunks :
             /\ Len(poll.chunks[k]) \in 1..ChunkSize
             /\ k < Len(poll.chunks) => Len(poll.chunks[k]) = ChunkSize
       /\ Len(poll.bodies) <= Len(poll.chunks)
       /\ poll.bodies = SubSeq(poll.chunks, 1, Len(poll.bodies))
       /\ poll.n = 0 => /\ poll.at = "done"
                        /\ poll.bodies = <<>>
                        /\ poll.results = 0

\* A list of more than two hundred ids that is no multiple of 100 has been
\* scanned to the end, each of its three chunks posted.
C28_Witness ==
    /\ poll.at = "done"
    /\ Len(poll.chunks) = 3
    /\ Len(poll.chunks[3]) < ChunkSize
    /\ Len(poll.bodies) = 3
    /\ poll.results = 3

\* ---------------------------------------------------------------------
\* C27 (as stated): after one ingestion of a workspace that holds a report
\* and the dataset its datasetId names, the PBIFeeds relationship from that
\* dataset to that report exists, with no second scan.
C27_Original ==
    (last.op = "ingest_pbi")
    => \A i \in DOMAIN last.scan_results :
          LET ws == last.scan_results[i]
          IN  \A j \in DOMAIN ws["reports"], k \in DOMAIN ws["datasets"] :
                 Get(ws["reports"][j], "datasetId") = ws["datasets"][k]["id"]
                 => BagIn(Rel("PBIFeeds", ws["datasets"][k]["id"], ws["reports"][j]["id"]),
                          edges)

\* ---------------------------------------------------------------------
\* C29: an artifact batch given an anchor id that has no Resource node
\* creates no Resource node and no relationship; when it returns it has
\* created the node of every item, the nodes it created have no incoming
\* relationship, no containment leaves the anchor id, and the caller gets
\* None, as for a batch whose anchor exists.
C29_MissingAnchor ==
    [][(last'.op \in BatchOps /\ ~last'.found)
       => /\ {n \in nodes' : n.label = "Resource"} = {n \in nodes : n.label = "Resource"}
          /\ Match(nodes', "Resource", last'.rid) = {}
          /\ edges' = edges
          /\ \A e \in BagToSet(edges') : e.src # last'.rid
          /\ \A n \in nodes' \ nodes : \A e \in BagToSet(edges') : e.dst # n.id
          /\ last'.ret \in {None, "KeyError"}
          /\ (MalformedCount(last') = 0) => (last'.ret = None)
          /\ (last'.ret = None)
             => \A x \in ItemsOf(last') : Match(nodes', x[1][2], x[2].id) # {}]_vars

\* C29 witness: a batch with items has returned for an anchor id that has no
\* Resource node; every item's node is in the graph and no relationship
\* reaches any of them.
C29_Witness ==
    /\ last.op \in BatchOps
    /\ ~last.found
    /\ last.ret = None
    /\ Match(nodes, "Resource", last.rid) = {}
    /\ ItemsOf(last) # {}
    /\ \A x \in ItemsOf(last) :
          /\ Match(nodes, x[1][2], x[2].id) # {}
          /\ \A e \in BagToSet(edges) : e.dst # x[2].id

\* The upserts that are one MERGE of one node.
NodeUpserts ==
    {"upsert_user", "upsert_resource", "upsert_subscription", "upsert_pbi_workspace"}

\* ---------------------------------------------------------------------
\* C30: a node upsert touches only the node with the given (type, id):
\* every other node, a node of another type with the same id included, is
\* in the graph after the call exactly as before, no other node appears,
\* and the relationships, those of the upserted node included, are as before.
C30_UpsertFrame ==
    [][(last'.op \in NodeUpserts)
       => /\ edges' = edges
          /\ {n \in nodes' : n.label # last'.label \/ n.id # last'.id}
               = {n \in nodes : n.label # last'.label \/ n.id # last'.id}]_vars

\* C30 witness: a resource that is contained in a subscription of the same
\* id string has been upserted again with other values.
C30_Witness ==
    /\ last.op = "upsert_resource"
    /\ last.before # {}
    /\ last.before # Target(last)
    /\ Match(nodes, "Subscription", last.id) # {}
    /\ BagIn(Rel("Contains", last.id, last.id), edges)

====
